---- MODULE Spec2Model ----
(***************************************************************************)
(* blobxfer.operations.azure.blob: the container provisioner, the listing  *)
(* and mode-resolution helpers and the block, page and append transfer     *)
(* engines, each modelled together with the part of the remote blob store  *)
(* its calls act on.  The specifications:                                  *)
(*   SpecContainer     create_container called by concurrent workers       *)
(*   SpecContainerSeq  create_container called in sequence                 *)
(*   SpecBlock         create_blob, put_block, put_block_from_url,         *)
(*                     put_block_list and get_committed_block_list on one  *)
(*                     destination blob, over the chunk plan of a transfer *)
(*   SpecCopy          put_block_from_url and get_blob_range over every    *)
(*                     byte range                                          *)
(*   SpecBlockId       the calls that format a block id, over chunk        *)
(*                     numbers at both ends of the 8-digit range           *)
(*   SpecList          list_blobs, consumed lazily                         *)
(*   SpecProps         get_blob_properties and check_if_single_blob        *)
(*   SpecMode          get_blob_properties and list_blobs interleaved      *)
(*   SpecPage          page.create_blob, put_page and resize_blob on one   *)
(*                     destination page blob                               *)
(*   SpecPageSet       put_page calls with pairwise disjoint ranges, in    *)
(*                     every order, on one sized page blob                 *)
(*   SpecAppend        append.create_blob and append_block, in sequence    *)
(*   SpecErr           the lookups and listings that raise                 *)
(*   SpecStage         the staging of a transfer's chunks by upload or     *)
(*                     copy, and its commits (SpecStageUpload: by upload)  *)
(*   SpecRegistry      create_container next to engine and listing calls   *)
(***************************************************************************)
EXTENDS Integers, Sequences, FiniteSets, TLC

VARIABLES
    \* ---- container provisioner ----
    containers_created,   \* the registry: set of keys (the caller's set object)
    remote_containers,    \* containers that exist at the remote store
    cc_pc,                \* per worker: position inside create_container
    cc_ase,               \* per worker: the entity it was called with
    cc_exc,               \* per worker: exception in flight through `finally`
    cc_read,              \* per worker: its call has evaluated `key in containers_created`
    create_calls,         \* per (account, container): create calls issued
    cc_ncalls,            \* invocations of create_container so far
    \* ---- block engine ----
    staged,               \* destination blob: uncommitted blocks, id -> data
    committed,            \* destination blob: absent, or its committed blocks
    last,                 \* the latest engine call: arguments, remote calls, outcome
    \* ---- listing ----
    ls_blobs,             \* the container's blobs, in enumeration order
    ls_args,              \* arguments of the list_blobs call in progress
    ls_pc,                \* position of the generator
    ls_idx,               \* blobs of the enumeration consumed so far
    ls_yielded,           \* what the generator has yielded, in order
    ls_calls,             \* remote calls issued by the generator, in order
    ls_exc,               \* the exception the generator has raised, if any
    \* ---- page engine ----
    page_blob,            \* destination page blob: absent, or its size and pages
    pg_calls,             \* put_page calls handed to the workers
    pg_done,              \* those of pg_calls that have returned
    \* ---- append engine ----
    append_blob           \* destination append blob: absent, or its content

ccvars == <<containers_created, remote_containers, cc_pc, cc_ase, cc_exc, cc_read,
            create_calls, cc_ncalls>>
blkvars == <<staged, committed, last>>
lsvars == <<ls_blobs, ls_args, ls_pc, ls_idx, ls_yielded, ls_calls, ls_exc>>
pgvars == <<page_blob, pg_calls, pg_done>>
apvars == <<append_blob>>
vars == <<ccvars, blkvars, lsvars, pgvars, apvars>>

\* Python's None, kept apart from every byte string and every text value.
None == <<"None">>

(***************************************************************************)
(* Bounds of the model.                                                    *)
(***************************************************************************)
MaxWorkers == 2
MaxCalls == 4
MaxChunk == 1
MaxRange == 1
MaxBlobs == 2
MaxPages == 2
MaxAppend == 4

(***************************************************************************)
(* Container provisioner.                                                  *)
(***************************************************************************)
Workers == 1..MaxWorkers
Accounts == {"sa"}
ContainerNames == {"cont", "cont2"}

\* The entities create_container is called with.
ContainerEntities ==
    [account_name : Accounts, container : ContainerNames,
     can_create_containers : BOOLEAN]

\* key = ase.client.account_name + ':blob=' + ase.container
container_key(ase) == <<ase.account_name, ":blob=", ase.container>>

RemoteName(ase) == <<ase.account_name, ase.container>>
RemoteNames == Accounts \X ContainerNames

NoEntity == CHOOSE e \in ContainerEntities : TRUE

\* Process start: an empty registry; any of the containers may already exist.
InitContainer ==
    /\ containers_created = {}
    /\ remote_containers \in SUBSET RemoteNames
    /\ cc_pc = [w \in Workers |-> "idle"]
    /\ cc_ase = [w \in Workers |-> NoEntity]
    /\ cc_exc = [w \in Workers |-> "none"]
    /\ cc_read = [w \in Workers |-> FALSE]
    /\ create_calls = [r \in RemoteNames |-> 0]
    /\ cc_ncalls = 0

\* The entry with the registry lookup ahead of the permission check.
cc_enter_lookup_first(w, ase) ==
    /\ cc_pc[w] \in {"idle", "done", "raised"}
    /\ cc_ncalls < MaxCalls
    /\ cc_ncalls' = cc_ncalls + 1
    /\ cc_ase' = [cc_ase EXCEPT ![w] = ase]
    /\ cc_exc' = [cc_exc EXCEPT ![w] = "none"]
    /\ cc_read' = [cc_read EXCEPT ![w] = TRUE]
    /\ cc_pc' = [cc_pc EXCEPT ![w] =
          IF container_key(ase) \in containers_created THEN "done"
          ELSE IF ~ase.can_create_containers THEN "done"
          ELSE "try"]
    /\ UNCHANGED <<containers_created, remote_containers, create_calls>>

\* Entry of create_container up to the try block: the permission check and the
\* registry lookup.  Both early returns end the call here.
cc_enter(w, ase) ==
    /\ cc_pc[w] \in {"idle", "done", "raised"}
    /\ cc_ncalls < MaxCalls
    /\ cc_ncalls' = cc_ncalls + 1
    /\ cc_ase' = [cc_ase EXCEPT ![w] = ase]
    /\ cc_exc' = [cc_exc EXCEPT ![w] = "none"]
    /\ cc_read' = [cc_read EXCEPT ![w] = ase.can_create_containers]
    /\ cc_pc' = [cc_pc EXCEPT ![w] =
          IF ~ase.can_create_containers THEN "done"
          ELSE IF container_key(ase) \in containers_created THEN "done"
          ELSE "try"]
    /\ UNCHANGED <<containers_created, remote_containers, create_calls>>

\* ase.client.create_container(...): the remote store creates the container,
\* reports that it exists (ResourceExistsError), or the call fails otherwise.
cc_request(w) ==
    /\ cc_pc[w] = "try"
    /\ create_calls' = [create_calls EXCEPT ![RemoteName(cc_ase[w])] = @ + 1]
    /\ \/ /\ RemoteName(cc_ase[w]) \notin remote_containers
          /\ remote_containers' = remote_containers \cup {RemoteName(cc_ase[w])}
          /\ cc_exc' = [cc_exc EXCEPT ![w] = "none"]
       \/ /\ RemoteName(cc_ase[w]) \in remote_containers
          /\ cc_exc' = [cc_exc EXCEPT ![w] = "ResourceExistsError"]
          /\ UNCHANGED remote_containers
       \/ /\ cc_exc' = [cc_exc EXCEPT ![w] = "HttpResponseError"]
          /\ UNCHANGED remote_containers
    /\ cc_pc' = [cc_pc EXCEPT ![w] = "finally"]
    /\ UNCHANGED <<containers_created, cc_ase, cc_read, cc_ncalls>>

\* The handlers with the key added only when the create call raised nothing
\* or ResourceExistsError.
cc_finally_unless_failed(w) ==
    /\ cc_pc[w] = "finally"
    /\ containers_created' =
          IF cc_exc[w] \in {"none", "ResourceExistsError"}
          THEN containers_created \cup {container_key(cc_ase[w])}
          ELSE containers_created
    /\ cc_pc' = [cc_pc EXCEPT ![w] =
          IF cc_exc[w] \in {"none", "ResourceExistsError"} THEN "done" ELSE "raised"]
    /\ UNCHANGED <<remote_containers, cc_ase, cc_exc, cc_read, create_calls, cc_ncalls>>

\* The handlers with a bare `except` in place of `except ResourceExistsError`.
cc_finally_swallows_all(w) ==
    /\ cc_pc[w] = "finally"
    /\ containers_created' = containers_created \cup {container_key(cc_ase[w])}
    /\ cc_pc' = [cc_pc EXCEPT ![w] = "done"]
    /\ UNCHANGED <<remote_containers, cc_ase, cc_exc, cc_read, create_calls, cc_ncalls>>

\* A finally clause that keeps only the key of this call in the registry.
cc_finally_forgets(w) ==
    /\ cc_pc[w] = "finally"
    /\ containers_created' = {container_key(cc_ase[w])}
    /\ cc_pc' = [cc_pc EXCEPT ![w] =
          IF cc_exc[w] \in {"none", "ResourceExistsError"} THEN "done" ELSE "raised"]
    /\ UNCHANGED <<remote_containers, cc_ase, cc_exc, cc_read, create_calls, cc_ncalls>>

\* except ResourceExistsError: pass / finally: containers_created.add(key)
cc_finally(w) ==
    /\ cc_pc[w] = "finally"
    /\ containers_created' = containers_created \cup {container_key(cc_ase[w])}
    /\ cc_pc' = [cc_pc EXCEPT ![w] =
          IF cc_exc[w] \in {"none", "ResourceExistsError"} THEN "done" ELSE "raised"]
    /\ UNCHANGED <<remote_containers, cc_ase, cc_exc, cc_read, create_calls, cc_ncalls>>

IdleContainer == InitContainer /\ remote_containers = {}

CreateContainerEnter ==
    /\ \E w \in Workers, ase \in ContainerEntities : cc_enter(w, ase)
    /\ UNCHANGED <<blkvars, lsvars, pgvars, apvars>>

CreateContainerRequest ==
    /\ \E w \in Workers : cc_request(w)
    /\ UNCHANGED <<blkvars, lsvars, pgvars, apvars>>

CreateContainerFinally ==
    /\ \E w \in Workers : cc_finally(w)
    /\ UNCHANGED <<blkvars, lsvars, pgvars, apvars>>

\* No create_container call is in progress.
NoCallInFlight == \A w \in Workers : cc_pc[w] \in {"idle", "done", "raised"}

\* A call made by a caller that lets every earlier call end first.
CreateContainerEnterSeq ==
    /\ NoCallInFlight
    /\ \E w \in Workers, ase \in ContainerEntities : cc_enter(w, ase)
    /\ UNCHANGED <<blkvars, lsvars, pgvars, apvars>>

NextContainerSeq ==
    \/ CreateContainerEnterSeq
    \/ CreateContainerRequest
    \/ CreateContainerFinally

NextContainer ==
    \/ CreateContainerEnter
    \/ CreateContainerRequest
    \/ CreateContainerFinally

(***************************************************************************)
(* Block engine.                                                           *)
(***************************************************************************)
BlockIdWidth == 8

DigitChars == <<"0", "1", "2", "3", "4", "5", "6", "7", "8", "9">>

RECURSIVE Digits(_)
\* The decimal digits of n >= 0, most significant first.
Digits(n) ==
    IF n < 10 THEN <<DigitChars[n + 1]>>
    ELSE Digits(n \div 10) \o <<DigitChars[(n % 10) + 1]>>

ZeroPad(s, w) ==
    IF Len(s) >= w THEN s ELSE [i \in 1..(w - Len(s)) |-> "0"] \o s

\* The format without its zero padding, '{0:d}'.
format_block_id_unpadded(chunk_num) ==
    IF chunk_num < 0 THEN <<"-">> \o Digits(0 - chunk_num) ELSE Digits(chunk_num)

\* '{0:08d}'.format(chunk_num): sign-aware zero padding to a minimum width.
format_block_id(chunk_num) ==
    IF chunk_num < 0
    THEN <<"-">> \o ZeroPad(Digits(0 - chunk_num), BlockIdWidth - 1)
    ELSE ZeroPad(Digits(chunk_num), BlockIdWidth)

RECURSIVE Pow10(_)
Pow10(k) == IF k = 0 THEN 1 ELSE 10 * Pow10(k - 1)

\* Chunk numbers of one blob's transfer.
ChunkNums == 0..MaxChunk

\* Chunk numbers around both ends of the range an 8-digit id can hold.
IdChunkNums == {0 - 1, 0, 12, Pow10(BlockIdWidth) - 1, Pow10(BlockIdWidth)}

\* Payloads handed to the engine; None is an absent payload.
Payloads == {<<"x">>, <<"y">>}
Data == {None} \cup Payloads
Md5s == {None, <<"md5b64">>}
Metadatas == {None, <<"meta">>}

\* Offsets (chunk_num, range_start, range_end) of the chunks in S, with every
\* byte range up to offset MaxRange.
Offsets(S) ==
    {o \in [chunk_num : S, range_start : 0..MaxRange, range_end : 0..MaxRange] :
        o.range_start <= o.range_end}

\* The chunk plan of a transfer in one-byte chunks: chunk c is the byte at
\* offset c of the source (taken within the source's length), and range_end is
\* the offset of the chunk's last byte.
PlanOffsets(S) ==
    {[chunk_num |-> c, range_start |-> IF c < 0 THEN 0 ELSE c % (MaxChunk + MaxRange + 1),
      range_end |-> IF c < 0 THEN 0 ELSE c % (MaxChunk + MaxRange + 1)] : c \in S}

\* The source blob of a server-side copy: every byte differs from the others.
SrcContent == [i \in 1..(MaxChunk + MaxRange + 1) |-> DigitChars[i]]

\* Source entities of put_block_from_url.
SrcEntities ==
    {e \in [is_arbitrary_url : BOOLEAN, account_key : {None, <<"key">>},
            mode : {"Block", "File"}] :
        e.is_arbitrary_url => (e.account_key = None /\ e.mode = "Block")}

src_path(src_ase) ==
    IF src_ase.is_arbitrary_url THEN "https://host/remote/path" ELSE "container/name"

\* blobxfer.util.base64_decode_string(md5) if md5 else None
decode_md5(md5) == IF md5 = None THEN None ELSE <<"base64_decode">> \o md5

\* The first n bytes of content from a 0-based offset (fewer at the end).
Bytes(content, offset, length) ==
    SubSeq(content, offset + 1,
           IF offset + length <= Len(content) THEN offset + length ELSE Len(content))

\* The bytes of chunk c of the source: offsets range_start..range_end of its
\* plan entry, both included.
ChunkData(c) ==
    LET o == CHOOSE x \in PlanOffsets({c}) : TRUE
    IN  Bytes(SrcContent, o.range_start, o.range_end - o.range_start + 1)

RECURSIVE Concat(_)
Concat(ss) == IF ss = <<>> THEN <<>> ELSE Head(ss) \o Concat(Tail(ss))

AbsentBlob == [exists |-> FALSE, blocks |-> <<>>, content |-> <<>>]

NoCall == [op |-> "none", args |-> <<>>, calls |-> <<>>, ret |-> None, exc |-> "none"]

InitBlock ==
    /\ staged = <<>>
    /\ committed = AbsentBlob
    /\ last = NoCall

IdleBlock == InitBlock

Stage(id, data) ==
    [i \in (DOMAIN staged) \cup {id} |-> IF i = id THEN data ELSE staged[i]]

\* create_blob(ase, data, md5, metadata): one-shot upload.
create_blob(data, md5, metadata) ==
    /\ IF data = None
       THEN \* return b''
            /\ last' = [op |-> "create_blob",
                        args |-> [data |-> data, md5 |-> md5, metadata |-> metadata],
                        calls |-> <<>>, ret |-> <<>>, exc |-> "none"]
            /\ UNCHANGED <<staged, committed>>
       ELSE LET call == [call |-> "upload_blob", data |-> data,
                         content_md5 |-> decode_md5(md5), metadata |-> metadata]
            IN  \* upload_blob does not overwrite an existing blob
                IF committed.exists
                THEN /\ last' = [op |-> "create_blob",
                                 args |-> [data |-> data, md5 |-> md5, metadata |-> metadata],
                                 calls |-> <<call>>, ret |-> None,
                                 exc |-> "ResourceExistsError"]
                     /\ UNCHANGED <<staged, committed>>
                ELSE /\ last' = [op |-> "create_blob",
                                 args |-> [data |-> data, md5 |-> md5, metadata |-> metadata],
                                 calls |-> <<call>>, ret |-> None, exc |-> "none"]
                     /\ committed' = [exists |-> TRUE, blocks |-> <<>>, content |-> data]
                     /\ staged' = <<>>

\* put_block with the block made part of the blob at once.
put_block_visible(offsets, data) ==
    LET id == format_block_id(offsets.chunk_num)
        sent == IF data = None THEN <<>> ELSE data
    IN  /\ last' = [op |-> "put_block", args |-> [offsets |-> offsets, data |-> data],
                    calls |-> <<[call |-> "stage_block", block_id |-> id,
                                 data |-> sent]>>,
                    ret |-> None, exc |-> "none"]
        /\ committed' = [exists |-> FALSE,
                         blocks |-> Append(committed.blocks, [id |-> id, data |-> sent]),
                         content |-> committed.content \o sent]
        /\ UNCHANGED staged

\* put_block(ase, offsets, data): stage one chunk.
put_block(offsets, data) ==
    /\ IF data = None
       THEN \* return b''
            /\ last' = [op |-> "put_block", args |-> [offsets |-> offsets, data |-> data],
                        calls |-> <<>>, ret |-> <<>>, exc |-> "none"]
            /\ UNCHANGED <<staged, committed>>
       ELSE LET id == format_block_id(offsets.chunk_num)
            IN  /\ last' = [op |-> "put_block",
                            args |-> [offsets |-> offsets, data |-> data],
                            calls |-> <<[call |-> "stage_block", block_id |-> id,
                                         data |-> data]>>,
                            ret |-> None, exc |-> "none"]
                /\ staged' = Stage(id, data)
                /\ UNCHANGED committed

\* source_length=offsets.range_end - offsets.range_start
copy_source_length(offsets) == offsets.range_end - offsets.range_start

\* length=offsets.range_end - offsets.range_start + 1
blob_range_length(offsets) == offsets.range_end - offsets.range_start + 1

\* The source URL put_block_from_url resolves, or the exception it raises
\* while resolving it.
src_url(src_ase) ==
    IF src_ase.is_arbitrary_url
    THEN [exc |-> "none", url |-> <<src_path(src_ase)>>]
    ELSE IF src_ase.account_key # None /\ Len(src_ase.account_key) > 0
         THEN [exc |-> "NotImplementedError", url |-> <<>>]
         ELSE [exc |-> "none",
               url |-> <<"https://", "primary_endpoint", "/", src_path(src_ase),
                         "?", "sas_token">>]

\* put_block_from_url(src_ase, dst_ase, offsets): server-side copy of a range
\* of the source into a staged block of the destination.
put_block_from_url(src_ase, offsets) ==
    /\ LET r == src_url(src_ase)
           id == format_block_id(offsets.chunk_num)
           args == [src_ase |-> src_ase, offsets |-> offsets]
       IN  IF r.exc # "none"
           THEN /\ last' = [op |-> "put_block_from_url", args |-> args,
                            calls |-> <<>>, ret |-> None, exc |-> r.exc]
                /\ UNCHANGED <<staged, committed>>
           ELSE /\ last' = [op |-> "put_block_from_url", args |-> args,
                            calls |-> <<[call |-> "stage_block_from_url",
                                         block_id |-> id,
                                         source_url |-> r.url,
                                         source_offset |-> offsets.range_start,
                                         source_length |-> copy_source_length(offsets),
                                         source_content_md5 |-> None]>>,
                            ret |-> None, exc |-> "none"]
                /\ staged' = Stage(id, Bytes(SrcContent, offsets.range_start,
                                             copy_source_length(offsets)))
                /\ UNCHANGED committed

\* The list built over range(0, last_block_num): the last block is left out.
block_list_short(last_block_num) ==
    [i \in 1..last_block_num |-> format_block_id(i - 1)]

\* The list built over range(last_block_num, -1, -1): the ids descending.
block_list_descending(last_block_num) ==
    [i \in 1..(last_block_num + 1) |-> format_block_id(last_block_num + 1 - i)]

\* block_list = [BlobBlock(id=_format_block_id(x)) for x in range(0, last_block_num + 1)]
block_list(last_block_num) ==
    [i \in 1..(last_block_num + 1) |-> format_block_id(i - 1)]

\* The data the store holds for a block id named in a commit: the uncommitted
\* block if there is one, else the committed one.
Committed_ids == {committed.blocks[i].id : i \in 1..Len(committed.blocks)}
LatestBlock(id) ==
    IF id \in DOMAIN staged THEN staged[id]
    ELSE (CHOOSE b \in {committed.blocks[i] : i \in 1..Len(committed.blocks)} :
             b.id = id).data

\* put_block_list(ase, last_block_num, md5, metadata): commit blocks 0..last_block_num.
put_block_list(last_block_num, md5, metadata) ==
    /\ LET ids == block_list(last_block_num)
           call == [call |-> "commit_block_list", block_list |-> ids,
                    content_md5 |-> decode_md5(md5), metadata |-> metadata]
           args == [last_block_num |-> last_block_num, md5 |-> md5,
                    metadata |-> metadata]
           known == \A i \in 1..Len(ids) : ids[i] \in (DOMAIN staged) \cup Committed_ids
           blocks == [i \in 1..Len(ids) |-> [id |-> ids[i], data |-> LatestBlock(ids[i])]]
       IN  IF known
           THEN /\ last' = [op |-> "put_block_list", args |-> args,
                            calls |-> <<call>>, ret |-> None, exc |-> "none"]
                /\ committed' = [exists |-> TRUE, blocks |-> blocks,
                                 content |-> Concat([i \in 1..Len(ids) |-> blocks[i].data])]
                /\ staged' = <<>>
           ELSE \* the store rejects a list naming a block it does not hold
                /\ last' = [op |-> "put_block_list", args |-> args,
                            calls |-> <<call>>, ret |-> None, exc |-> "HttpResponseError"]
                /\ UNCHANGED <<staged, committed>>

\* get_committed_block_list(ase): blob.get_block_list(...)[0]; the entity's
\* name carries no snapshot parameter.
get_committed_block_list ==
    /\ IF committed.exists \/ DOMAIN staged # {}
       THEN last' = [op |-> "get_committed_block_list", args |-> <<>>,
                     calls |-> <<[call |-> "get_block_list", snapshot |-> None]>>,
                     ret |-> [i \in 1..Len(committed.blocks) |-> committed.blocks[i].id],
                     exc |-> "none"]
       ELSE last' = [op |-> "get_committed_block_list", args |-> <<>>,
                     calls |-> <<[call |-> "get_block_list", snapshot |-> None]>>,
                     ret |-> None, exc |-> "ResourceNotFoundError"]
    /\ UNCHANGED <<staged, committed>>

\* get_blob_range(ase, offsets) on the source blob of the copy.
get_blob_range(offsets) ==
    /\ last' = [op |-> "get_blob_range", args |-> [offsets |-> offsets],
                calls |-> <<[call |-> "download_blob",
                             offset |-> offsets.range_start,
                             length |-> blob_range_length(offsets)]>>,
                ret |-> Bytes(SrcContent, offsets.range_start, blob_range_length(offsets)),
                exc |-> "none"]
    /\ UNCHANGED <<staged, committed>>

(***************************************************************************)
(* Listing.                                                                *)
(***************************************************************************)
StorageModes == {"Block", "Append", "Page", "File", "Auto"}
BlobTypes == {"BlockBlob", "AppendBlob", "PageBlob"}

\* Blob names, as the store enumerates them (ascending): b, d/a, d/d/a.
NameOrder == << <<"b">>, <<"d", "/", "a">>, <<"d", "/", "d", "/", "a">> >>

\* Prefixes list_blobs is called with: "", b, d, d/ and a snapshot reference.
SnapshotPrefix == <<"b", "?snapshot=", "2017-02-23T22:21:14.8121864Z">>
Prefixes == {<<>>, <<"b">>, <<"d">>, <<"d", "/">>, SnapshotPrefix}

\* blobxfer.util.blob_is_snapshot(url): the name carries a snapshot parameter.
blob_is_snapshot(url) == \E i \in 1..Len(url) : url[i] = "?snapshot="

\* blobxfer.util.is_not_empty(obj)
is_not_empty(obj) == obj # None /\ Len(obj) > 0

StartsWith(name, prefix) ==
    /\ Len(prefix) <= Len(name)
    /\ \A i \in 1..Len(prefix) : name[i] = prefix[i]

RECURSIVE Filter(_, _)
\* The blobs of a sequence whose names start with the prefix (None: all).
Filter(blobs, name_starts_with) ==
    IF blobs = <<>> THEN <<>>
    ELSE IF name_starts_with = None \/ StartsWith(Head(blobs).name, name_starts_with)
         THEN <<Head(blobs)>> \o Filter(Tail(blobs), name_starts_with)
         ELSE Filter(Tail(blobs), name_starts_with)

\* name_starts_with=prefix if blobxfer.util.is_not_empty(prefix) else None
name_starts_with(prefix) == IF is_not_empty(prefix) THEN prefix ELSE None

\* What container_client.list_blobs enumerates for the call in progress.
Enumeration == Filter(ls_blobs, name_starts_with(ls_args.prefix))

\* The mode tests with the Page test compared against the block type.
mode_skips_page_as_block(mode, blob_type) ==
    IF mode = "Append" /\ blob_type # "AppendBlob" THEN TRUE
    ELSE IF mode = "Block" /\ blob_type # "BlockBlob" THEN TRUE
    ELSE IF mode = "Page" /\ blob_type # "BlockBlob" THEN TRUE
    ELSE FALSE

\* The mode tests of the loop body: the blob is passed over.
mode_skips(mode, blob_type) ==
    IF mode = "Append" /\ blob_type # "AppendBlob" THEN TRUE
    ELSE IF mode = "Block" /\ blob_type # "BlockBlob" THEN TRUE
    ELSE IF mode = "Page" /\ blob_type # "PageBlob" THEN TRUE
    ELSE FALSE

\* if not recursive and '/' in blob.name: continue
depth_skips(recursive, name) ==
    ~recursive /\ \E i \in 1..Len(name) : name[i] = "/"

list_skips(args, blob) ==
    mode_skips(args.mode, blob.blob_type) \/ depth_skips(args.recursive, blob.name)

\* Containers: at most MaxBlobs of the names, each blob of some type.
Containers ==
    {c \in [1..Len(NameOrder) -> BlobTypes \cup {"absent"}] :
        Cardinality({i \in 1..Len(NameOrder) : c[i] # "absent"}) <= MaxBlobs}

RECURSIVE Listed(_, _)
Listed(c, i) ==
    IF i > Len(NameOrder) THEN <<>>
    ELSE IF c[i] = "absent" THEN Listed(c, i + 1)
         ELSE <<[name |-> NameOrder[i], blob_type |-> c[i]]>> \o Listed(c, i + 1)

\* blobxfer.util.parse_blob_snapshot_parameter(url): (base name, snapshot).
parse_blob_snapshot_parameter(url) ==
    LET at == CHOOSE i \in 1..Len(url) : url[i] = "?snapshot="
    IN  <<SubSeq(url, 1, at - 1), SubSeq(url, at + 1, Len(url))>>

\* get_blob_client(name).get_blob_properties(timeout): what the store can
\* answer.  The client is made for the blob of that very name, with no
\* snapshot parameter, so the blob is found when the container holds a blob
\* named so; any fetch can fail for another reason.
fetch_outcomes(name) ==
    LET held == {i \in 1..Len(ls_blobs) : ls_blobs[i].name = name}
    IN  {[exc |-> "none", blob |-> ls_blobs[i]] : i \in held}
        \cup (IF held = {}
              THEN {[exc |-> "ResourceNotFoundError", blob |-> name]}
              ELSE {})
        \cup {[exc |-> "HttpResponseError", blob |-> name]}

fetch_call(name) == [call |-> "get_blob_properties", blob |-> name, snapshot |-> None]

\* A message that leaves the kind of storage out.
list_files_msg_unnamed == <<"cannot list from blob client">>

\* 'cannot list Azure Files from blob client'
list_files_msg == <<"cannot list Azure Files from blob client">>

NoExc == [exc |-> "none", msg |-> <<>>]

NoArgs == [prefix |-> <<>>, mode |-> "Auto", recursive |-> FALSE]

InitList ==
    /\ ls_blobs \in {Listed(c, 1) : c \in Containers}
    /\ ls_args = NoArgs
    /\ ls_pc = "idle"
    /\ ls_idx = 0
    /\ ls_yielded = <<>>
    /\ ls_calls = <<>>
    /\ ls_exc = NoExc

IdleList == InitList /\ ls_blobs = <<>>

\* list_blobs(client, container, prefix, mode, recursive): the call creates the
\* generator; its body runs when the consumer asks for an item.
list_blobs(prefix, mode, recursive) ==
    /\ ls_args' = [prefix |-> prefix, mode |-> mode, recursive |-> recursive]
    /\ ls_pc' = "start"
    /\ ls_idx' = 0
    /\ ls_yielded' = <<>>
    /\ ls_calls' = <<>>
    /\ ls_exc' = NoExc
    /\ UNCHANGED ls_blobs

\* The loop from position idx of the enumeration to the next yield or the end.
ls_loop(idx, calls) ==
    LET en == Enumeration
        hits == {j \in (idx + 1)..Len(en) : ~list_skips(ls_args, en[j])}
    IN  /\ ls_calls' = calls
        /\ UNCHANGED ls_exc
        /\ IF hits = {}
           THEN /\ ls_pc' = "done"
                /\ ls_idx' = Len(en)
                /\ UNCHANGED ls_yielded
           ELSE LET j == CHOOSE k \in hits : \A h \in hits : k <= h
                IN  /\ ls_pc' = "yielded"
                    /\ ls_idx' = j
                    /\ ls_yielded' = Append(ls_yielded, en[j])

\* The consumer asks a new generator for its first item: the body runs from
\* its start to the first yield, to its end, or to an exception.
ls_first ==
    /\ ls_pc = "start"
    /\ UNCHANGED <<ls_blobs, ls_args>>
    /\ IF ls_args.mode = "File"
       THEN /\ ls_pc' = "raised"
            /\ ls_exc' = [exc |-> "RuntimeError", msg |-> list_files_msg]
            /\ UNCHANGED <<ls_idx, ls_yielded, ls_calls>>
       ELSE IF blob_is_snapshot(ls_args.prefix)
       THEN \* base_blob and snapshot are parsed and then left unused: the
            \* client is made for the blob named by the whole prefix
            /\ ls_calls' = <<fetch_call(ls_args.prefix)>>
            /\ UNCHANGED ls_idx
            /\ \E r \in fetch_outcomes(ls_args.prefix) :
                  IF r.exc = "none"
                  THEN /\ ls_pc' = "snapshot_yielded"
                       /\ ls_yielded' = <<r.blob>>
                       /\ UNCHANGED ls_exc
                  ELSE /\ ls_pc' = "raised"
                       /\ ls_exc' = [exc |-> r.exc, msg |-> <<>>]
                       /\ UNCHANGED ls_yielded
       ELSE ls_loop(0, <<[call |-> "list_blobs",
                          name_starts_with |-> name_starts_with(ls_args.prefix),
                          include |-> <<"metadata">>]>>)

\* The consumer asks for a further item.
ls_resume ==
    /\ ls_pc \in {"yielded", "snapshot_yielded"}
    /\ UNCHANGED <<ls_blobs, ls_args>>
    /\ IF ls_pc = "snapshot_yielded"
       THEN /\ ls_pc' = "done"
            /\ UNCHANGED <<ls_idx, ls_yielded, ls_calls, ls_exc>>
       ELSE ls_loop(ls_idx, ls_calls)

(***************************************************************************)
(* Property lookups: get_blob_properties and check_if_single_blob.         *)
(***************************************************************************)
\* Names the lookups are asked about: blobs the container may hold, a name
\* it never holds, and a snapshot reference.
PropNames == {<<"b">>, <<"d", "/", "a">>, <<"d">>, SnapshotPrefix}

\* Python's True and False, as return values.
PyTrue == <<"True">>
PyFalse == <<"False">>

\* The properties object of a blob, as a return value.
Properties(blob) == <<"properties", blob.blob_type, blob.name>>

\* The mismatch test with the Page mode compared against the block type.
mode_mismatch_page_as_block(mode, blob_type) ==
    \/ mode = "Append" /\ blob_type # "AppendBlob"
    \/ mode = "Block" /\ blob_type # "BlockBlob"
    \/ mode = "Page" /\ blob_type # "BlockBlob"

\* The mismatch test with the Auto mode held to the block type.
mode_mismatch_auto_as_block(mode, blob_type) ==
    \/ mode = "Append" /\ blob_type # "AppendBlob"
    \/ mode \in {"Block", "Auto"} /\ blob_type # "BlockBlob"
    \/ mode = "Page" /\ blob_type # "PageBlob"

\* The test that guards the mismatch RuntimeError of get_blob_properties.
mode_mismatch(mode, blob_type) ==
    \/ mode = "Append" /\ blob_type # "AppendBlob"
    \/ mode = "Block" /\ blob_type # "BlockBlob"
    \/ mode = "Page" /\ blob_type # "PageBlob"

\* 'cannot list Azure Blobs with incompatible mode: {}'.format(mode)
incompatible_mode_msg(mode) ==
    <<"cannot list Azure Blobs with incompatible mode: ", mode>>

\* 'existing blob type {} mismatch with mode {}'.format(blob_type, mode)
mismatch_msg(blob_type, mode) ==
    <<"existing blob type ", blob_type, " mismatch with mode ", mode>>

\* get_blob_properties with the fetch issued ahead of the File-mode test.
get_blob_properties_fetch_first(prefix, mode) ==
    /\ UNCHANGED <<staged, committed>>
    /\ \E r \in fetch_outcomes(prefix) :
          last' = [op |-> "get_blob_properties",
                   args |-> [prefix |-> prefix, mode |-> mode],
                   calls |-> <<fetch_call(prefix)>>, ret |-> None,
                   exc |-> "RuntimeError", msg |-> incompatible_mode_msg(mode)]

\* get_blob_properties(client, container, prefix, mode)
get_blob_properties(prefix, mode) ==
    LET args == [prefix |-> prefix, mode |-> mode]
    IN  /\ UNCHANGED <<staged, committed>>
        /\ IF mode = "File"
           THEN last' = [op |-> "get_blob_properties", args |-> args,
                         calls |-> <<>>, ret |-> None, exc |-> "RuntimeError",
                         msg |-> incompatible_mode_msg(mode)]
           ELSE \E r \in fetch_outcomes(prefix) :
                  last' =
                    IF r.exc = "ResourceNotFoundError"
                    THEN [op |-> "get_blob_properties", args |-> args,
                          calls |-> <<fetch_call(prefix)>>, ret |-> None,
                          exc |-> "none", msg |-> <<>>]
                    ELSE IF r.exc # "none"
                    THEN [op |-> "get_blob_properties", args |-> args,
                          calls |-> <<fetch_call(prefix)>>, ret |-> None,
                          exc |-> r.exc, msg |-> <<>>]
                    ELSE IF mode_mismatch(mode, r.blob.blob_type)
                    THEN [op |-> "get_blob_properties", args |-> args,
                          calls |-> <<fetch_call(prefix)>>, ret |-> None,
                          exc |-> "RuntimeError",
                          msg |-> mismatch_msg(r.blob.blob_type, mode)]
                    ELSE [op |-> "get_blob_properties", args |-> args,
                          calls |-> <<fetch_call(prefix)>>,
                          ret |-> Properties(r.blob), exc |-> "none",
                          msg |-> <<>>]

\* check_if_single_blob without the snapshot short cut.
check_if_single_blob_always_fetches(prefix) ==
    LET args == [prefix |-> prefix]
    IN  /\ UNCHANGED <<staged, committed>>
        /\ \E r \in fetch_outcomes(prefix) :
             last' = [op |-> "check_if_single_blob", args |-> args,
                      calls |-> <<fetch_call(prefix)>>,
                      ret |-> IF r.exc = "none" THEN PyTrue
                              ELSE IF r.exc = "ResourceNotFoundError" THEN PyFalse
                              ELSE None,
                      exc |-> IF r.exc = "ResourceNotFoundError" THEN "none"
                              ELSE r.exc]

\* check_if_single_blob(client, container, prefix)
check_if_single_blob(prefix) ==
    LET args == [prefix |-> prefix]
    IN  /\ UNCHANGED <<staged, committed>>
        /\ IF blob_is_snapshot(prefix)
           THEN last' = [op |-> "check_if_single_blob", args |-> args,
                         calls |-> <<>>, ret |-> PyTrue, exc |-> "none"]
           ELSE \E r \in fetch_outcomes(prefix) :
                  last' = [op |-> "check_if_single_blob", args |-> args,
                           calls |-> <<fetch_call(prefix)>>,
                           ret |-> IF r.exc = "none" THEN PyTrue
                                   ELSE IF r.exc = "ResourceNotFoundError"
                                        THEN PyFalse
                                   ELSE None,
                           exc |-> IF r.exc = "ResourceNotFoundError" THEN "none"
                                   ELSE r.exc]

(***************************************************************************)
(* Page engine.                                                            *)
(***************************************************************************)
\* The page size of the store, blobxfer.util's page boundary.
PageBoundary == 512

\* blobxfer.util.page_align_content_length(length): the next page boundary.
page_align_content_length(length) ==
    IF length % PageBoundary # 0
    THEN length + (PageBoundary - (length % PageBoundary))
    ELSE length

\* Logical sizes: around every page boundary up to MaxPages pages, and 1000.
Sizes ==
    {s \in UNION {{k * PageBoundary, k * PageBoundary + 1, (k + 1) * PageBoundary - 1} :
                     k \in 0..(MaxPages - 1)}
              \cup {MaxPages * PageBoundary, 1000} :
        s <= MaxPages * PageBoundary}

\* Bounds of a page range: page boundaries, and 1000.
PageBounds ==
    {s \in {k * PageBoundary : k \in 0..MaxPages} \cup {1000} :
        s <= MaxPages * PageBoundary}

\* n bytes, each of value fill.
Fill(n, fill) == <<"bytes", n, fill>>
FillLen(data) == IF data = None THEN 0 ELSE data[2]

NoPageBlob == [exists |-> FALSE, size |-> 0, content |-> <<>>]

\* The number of whole pages in a size.
Pages(size) == size \div PageBoundary

InitPage ==
    /\ page_blob = NoPageBlob
    /\ pg_calls = {}
    /\ pg_done = {}

\* create_blob(ase) with the logical size sent as it is.
page_create_blob_unaligned(size) ==
    /\ last' = [op |-> "page.create_blob", args |-> [size |-> size],
                calls |-> <<[call |-> "create_page_blob", size |-> size]>>,
                ret |-> None, exc |-> "none"]
    /\ page_blob' = [exists |-> TRUE, size |-> size,
                     content |-> [i \in 1..Pages(size) |-> "zero"]]
    /\ UNCHANGED <<staged, committed>>

\* page.create_blob(ase), ase.size = size: the store allocates a zero-filled
\* page blob of the size it is sent.
page_create_blob(size) ==
    LET sent == page_align_content_length(size)
    IN  /\ last' = [op |-> "page.create_blob", args |-> [size |-> size],
                    calls |-> <<[call |-> "create_page_blob", size |-> sent]>>,
                    ret |-> None, exc |-> "none"]
        /\ page_blob' = [exists |-> TRUE, size |-> sent,
                         content |-> [i \in 1..Pages(sent) |-> "zero"]]
        /\ UNCHANGED <<staged, committed>>

\* The store's answer to upload_page(data, offset, length): the write is
\* accepted when the blob exists, the range is made of whole pages inside
\* the blob and the data fills it.
page_write_accepted(data, offset, length) ==
    /\ page_blob.exists
    /\ offset % PageBoundary = 0
    /\ length % PageBoundary = 0
    /\ length > 0
    /\ offset + length <= page_blob.size
    /\ Len(data) = 3 /\ FillLen(data) = length

\* put_page with the length rounded to the next page boundary.
put_page_aligned(page_start, page_end, data) ==
    LET sent == IF data = None THEN <<>> ELSE data
        length == page_align_content_length(page_end - page_start)
        call == [call |-> "upload_page", data |-> sent, offset |-> page_start,
                 length |-> length]
    IN  /\ last' = [op |-> "put_page",
                    args |-> [page_start |-> page_start, page_end |-> page_end,
                              data |-> data],
                    calls |-> <<call>>, ret |-> None, exc |-> "none"]
        /\ UNCHANGED <<staged, committed, page_blob>>

\* put_page whose write runs on from the range to the end of the blob.
put_page_to_end(page_start, page_end, data) ==
    LET sent == IF data = None THEN <<>> ELSE data
        length == page_end - page_start
        call == [call |-> "upload_page", data |-> sent, offset |-> page_start,
                 length |-> length]
        args == [page_start |-> page_start, page_end |-> page_end, data |-> data]
    IN  /\ UNCHANGED <<staged, committed>>
        /\ IF page_write_accepted(sent, page_start, length)
           THEN /\ last' = [op |-> "put_page", args |-> args, calls |-> <<call>>,
                            ret |-> None, exc |-> "none"]
                /\ page_blob' =
                     [page_blob EXCEPT !.content =
                        [i \in 1..Pages(page_blob.size) |->
                           IF (i - 1) * PageBoundary >= page_start
                           THEN sent[3] ELSE @[i]]]
           ELSE /\ last' = [op |-> "put_page", args |-> args, calls |-> <<call>>,
                            ret |-> None, exc |-> "HttpResponseError"]
                /\ UNCHANGED page_blob

\* put_page(ase, page_start, page_end, data)
put_page(page_start, page_end, data) ==
    LET sent == IF data = None THEN <<>> ELSE data
        length == page_end - page_start
        call == [call |-> "upload_page", data |-> sent, offset |-> page_start,
                 length |-> length]
        args == [page_start |-> page_start, page_end |-> page_end, data |-> data]
    IN  /\ UNCHANGED <<staged, committed>>
        /\ IF page_write_accepted(sent, page_start, length)
           THEN /\ last' = [op |-> "put_page", args |-> args, calls |-> <<call>>,
                            ret |-> None, exc |-> "none"]
                /\ page_blob' =
                     [page_blob EXCEPT !.content =
                        [i \in 1..Pages(page_blob.size) |->
                           IF /\ (i - 1) * PageBoundary >= page_start
                              /\ i * PageBoundary <= page_start + length
                           THEN sent[3] ELSE @[i]]]
           ELSE /\ last' = [op |-> "put_page", args |-> args, calls |-> <<call>>,
                            ret |-> None, exc |-> "HttpResponseError"]
                /\ UNCHANGED page_blob

\* resize_blob(ase, size): the store truncates or zero-extends an existing
\* page blob to the size it is sent.
resize_blob(size) ==
    LET sent == page_align_content_length(size)
        call == [call |-> "resize_blob", size |-> sent]
    IN  /\ UNCHANGED <<staged, committed>>
        /\ IF page_blob.exists
           THEN /\ last' = [op |-> "resize_blob", args |-> [size |-> size],
                            calls |-> <<call>>, ret |-> None, exc |-> "none"]
                /\ page_blob' =
                     [page_blob EXCEPT
                        !.size = sent,
                        !.content = [i \in 1..Pages(sent) |->
                                       IF i <= Len(@) THEN @[i] ELSE "zero"]]
           ELSE /\ last' = [op |-> "resize_blob", args |-> [size |-> size],
                            calls |-> <<call>>, ret |-> None,
                            exc |-> "ResourceNotFoundError"]
                /\ UNCHANGED page_blob

(***************************************************************************)
(* Append engine.                                                          *)
(***************************************************************************)
NoAppendBlob == [exists |-> FALSE, content |-> <<>>]

InitAppend == append_blob = NoAppendBlob

\* append.create_blob(ase): the store creates an empty append blob.
append_create_blob ==
    /\ last' = [op |-> "append.create_blob", args |-> <<>>,
                calls |-> <<[call |-> "create_append_blob"]>>,
                ret |-> None, exc |-> "none"]
    /\ append_blob' = [exists |-> TRUE, content |-> <<>>]
    /\ UNCHANGED <<staged, committed>>

\* append_block that returns at once when the data is absent.
append_block_skips_absent(data) ==
    /\ last' = [op |-> "append_block", args |-> [data |-> data],
                calls |-> IF data = None THEN <<>>
                          ELSE <<[call |-> "append_block", data |-> data]>>,
                ret |-> None, exc |-> "none"]
    /\ append_blob' = [append_blob EXCEPT !.content =
                         IF data = None THEN @ ELSE @ \o data]
    /\ UNCHANGED <<staged, committed>>

\* append_block(ase, data): the store extends an existing append blob by the
\* payload; it may accept an empty payload, changing nothing, or refuse it.
append_block(data) ==
    LET sent == IF data = None THEN <<>> ELSE data
        args == [data |-> data]
        call == [call |-> "append_block", data |-> sent]
    IN  /\ UNCHANGED <<staged, committed>>
        /\ IF ~append_blob.exists
           THEN /\ last' = [op |-> "append_block", args |-> args, calls |-> <<call>>,
                            ret |-> None, exc |-> "ResourceNotFoundError"]
                /\ UNCHANGED append_blob
           ELSE \/ /\ last' = [op |-> "append_block", args |-> args,
                               calls |-> <<call>>, ret |-> None, exc |-> "none"]
                   /\ append_blob' = [append_blob EXCEPT !.content = @ \o sent]
                \/ /\ sent = <<>>
                   /\ last' = [op |-> "append_block", args |-> args,
                               calls |-> <<call>>, ret |-> None,
                               exc |-> "HttpResponseError"]
                   /\ UNCHANGED append_blob

ListBlobs ==
    /\ \E prefix \in Prefixes, mode \in StorageModes, recursive \in BOOLEAN :
           list_blobs(prefix, mode, recursive)
    /\ UNCHANGED <<ccvars, blkvars, pgvars, apvars>>

ListFirst ==
    /\ ls_first
    /\ UNCHANGED <<ccvars, blkvars, pgvars, apvars>>

ListResume ==
    /\ ls_resume
    /\ UNCHANGED <<ccvars, blkvars, pgvars, apvars>>

NextList ==
    \/ ListBlobs
    \/ ListFirst
    \/ ListResume

\* Checksum and metadata as a transfer supplies them: both or neither.
Md5Metadatas == {<<None, None>>, <<(<<"md5b64">>), (<<"meta">>)>>}

CreateBlob ==
    /\ \E data \in Data, mm \in Md5Metadatas : create_blob(data, mm[1], mm[2])
    /\ UNCHANGED <<ccvars, lsvars, pgvars, apvars>>

PutBlock ==
    /\ \E offsets \in PlanOffsets(ChunkNums), data \in Data : put_block(offsets, data)
    /\ UNCHANGED <<ccvars, lsvars, pgvars, apvars>>

PutBlockFromUrl ==
    /\ \E src_ase \in SrcEntities, offsets \in PlanOffsets(ChunkNums) :
           put_block_from_url(src_ase, offsets)
    /\ UNCHANGED <<ccvars, lsvars, pgvars, apvars>>

PutBlockList ==
    /\ \E n \in (0 - 1)..MaxChunk, mm \in Md5Metadatas : put_block_list(n, mm[1], mm[2])
    /\ UNCHANGED <<ccvars, lsvars, pgvars, apvars>>

GetCommittedBlockList ==
    /\ get_committed_block_list
    /\ UNCHANGED <<ccvars, lsvars, pgvars, apvars>>

NextBlock ==
    \/ CreateBlob
    \/ PutBlock
    \/ PutBlockFromUrl
    \/ PutBlockList
    \/ GetCommittedBlockList

InitSpecBlock == IdleContainer /\ InitBlock /\ IdleList /\ InitPage /\ InitAppend

SpecBlock == InitSpecBlock /\ [][NextBlock]_vars

\* The transfer of one source to the destination blob: every chunk is staged
\* by an upload of its bytes or by a server-side copy of its range, by any
\* worker, in any order and any number of times; commits may come at any time.
StageUpload ==
    /\ \E offsets \in PlanOffsets(ChunkNums) :
           put_block(offsets, ChunkData(offsets.chunk_num))
    /\ UNCHANGED <<ccvars, lsvars, pgvars, apvars>>

StageCopy ==
    /\ \E src_ase \in SrcEntities, offsets \in PlanOffsets(ChunkNums) :
           put_block_from_url(src_ase, offsets)
    /\ UNCHANGED <<ccvars, lsvars, pgvars, apvars>>

Commit ==
    /\ \E n \in ChunkNums : put_block_list(n, None, None)
    /\ UNCHANGED <<ccvars, lsvars, pgvars, apvars>>

NextStage ==
    \/ StageUpload
    \/ StageCopy
    \/ Commit

SpecStage == InitSpecBlock /\ [][NextStage]_vars

\* The same transfer with uploads only.
NextStageUpload ==
    \/ StageUpload
    \/ Commit

SpecStageUpload == InitSpecBlock /\ [][NextStageUpload]_vars

\* The server-side copy and the local range read, over every byte range.
CopyRange ==
    /\ \E src_ase \in SrcEntities, offsets \in Offsets(ChunkNums) :
           put_block_from_url(src_ase, offsets)
    /\ UNCHANGED <<ccvars, lsvars, pgvars, apvars>>

GetBlobRange ==
    /\ \E offsets \in Offsets(ChunkNums) : get_blob_range(offsets)
    /\ UNCHANGED <<ccvars, lsvars, pgvars, apvars>>

NextCopy ==
    \/ CopyRange
    \/ GetBlobRange

SpecCopy == InitSpecBlock /\ [][NextCopy]_vars

\* The calls that format a block id, over chunk numbers at the ends of the range.
PutBlockId ==
    /\ \E offsets \in PlanOffsets(IdChunkNums), data \in {None, <<"x">>} :
           put_block(offsets, data)
    /\ UNCHANGED <<ccvars, lsvars, pgvars, apvars>>

PutBlockFromUrlId ==
    /\ \E src_ase \in {e \in SrcEntities : e.is_arbitrary_url},
          offsets \in PlanOffsets(IdChunkNums) :
           put_block_from_url(src_ase, offsets)
    /\ UNCHANGED <<ccvars, lsvars, pgvars, apvars>>

PutBlockListId ==
    /\ \E n \in (0 - 1)..0 : put_block_list(n, None, None)
    /\ UNCHANGED <<ccvars, lsvars, pgvars, apvars>>

NextBlockId ==
    \/ PutBlockId
    \/ PutBlockFromUrlId
    \/ PutBlockListId

SpecBlockId == InitSpecBlock /\ [][NextBlockId]_vars

InitSpecContainer == InitContainer /\ IdleBlock /\ IdleList /\ InitPage /\ InitAppend

SpecContainer == InitSpecContainer /\ [][NextContainer]_vars

\* create_container called in sequence: each call ends before the next starts.
SpecContainerSeq == InitSpecContainer /\ [][NextContainerSeq]_vars

InitSpecList == IdleContainer /\ IdleBlock /\ InitList /\ InitPage /\ InitAppend

SpecList == InitSpecList /\ [][NextList]_vars

\* The property lookups against a container, every name and mode.
GetBlobProperties ==
    /\ \E prefix \in PropNames, mode \in StorageModes : get_blob_properties(prefix, mode)
    /\ UNCHANGED <<ccvars, lsvars, pgvars, apvars>>

CheckIfSingleBlob ==
    /\ \E prefix \in PropNames : check_if_single_blob(prefix)
    /\ UNCHANGED <<ccvars, lsvars, pgvars, apvars>>

NextProps ==
    \/ GetBlobProperties
    \/ CheckIfSingleBlob

SpecProps == InitSpecList /\ [][NextProps]_vars

\* Lookups and listings against one container, interleaved, with the File
\* mode and one blob mode.
FileOrBlock == {"File", "Block"}

GetBlobPropertiesMode ==
    /\ \E prefix \in PropNames, mode \in FileOrBlock : get_blob_properties(prefix, mode)
    /\ UNCHANGED <<ccvars, lsvars, pgvars, apvars>>

ListBlobsMode ==
    /\ \E prefix \in Prefixes, mode \in FileOrBlock, recursive \in BOOLEAN :
           list_blobs(prefix, mode, recursive)
    /\ UNCHANGED <<ccvars, blkvars, pgvars, apvars>>

NextMode ==
    \/ GetBlobPropertiesMode
    \/ ListBlobsMode
    \/ ListFirst
    \/ ListResume

SpecMode == InitSpecList /\ [][NextMode]_vars

\* The calls that can raise a mode error: lookups in every mode, and File-mode
\* listings.
ListBlobsFile ==
    /\ \E prefix \in Prefixes, recursive \in BOOLEAN : list_blobs(prefix, "File", recursive)
    /\ UNCHANGED <<ccvars, blkvars, pgvars, apvars>>

NextErr ==
    \/ GetBlobProperties
    \/ ListBlobsFile
    \/ ListFirst

SpecErr == InitSpecList /\ [][NextErr]_vars

\* The page engine on one destination blob.
PageCreateBlob ==
    /\ \E size \in Sizes : page_create_blob(size)
    /\ UNCHANGED <<ccvars, lsvars, apvars, pg_calls, pg_done>>

PutPage ==
    /\ \E page_start \in PageBounds, page_end \in PageBounds, fill \in {"x", "y"} :
           /\ page_start <= page_end
           /\ \E data \in {None, Fill(page_end - page_start, fill)} :
                  put_page(page_start, page_end, data)
    /\ UNCHANGED <<ccvars, lsvars, apvars, pg_calls, pg_done>>

ResizeBlob ==
    /\ \E size \in Sizes : resize_blob(size)
    /\ UNCHANGED <<ccvars, lsvars, apvars, pg_calls, pg_done>>

NextPage ==
    \/ PageCreateBlob
    \/ PutPage
    \/ ResizeBlob

SpecPage == InitSpecBlock /\ [][NextPage]_vars

\* Concurrent workers writing one sized page blob: a set of put_page calls
\* whose byte ranges [page_start, page_end) are pairwise disjoint is handed
\* out, and the calls reach the store one at a time in any order.
PageCalls ==
    {[page_start |-> a, page_end |-> b, data |-> Fill(b - a, f)] :
        a \in PageBounds, b \in PageBounds, f \in {"x", "y"}}

RangesDisjoint(c, d) ==
    \/ c.page_end <= d.page_start
    \/ d.page_end <= c.page_start

PageCallSets ==
    {S \in SUBSET {c \in PageCalls : c.page_start < c.page_end} :
        /\ Cardinality(S) <= MaxWorkers
        /\ \A c \in S, d \in S : c # d => RangesDisjoint(c, d)}

InitSpecPageSet ==
    /\ IdleContainer /\ InitBlock /\ IdleList /\ InitAppend
    /\ page_blob = NoPageBlob
    /\ pg_calls \in PageCallSets
    /\ pg_done = {}

PageSetCreateBlob ==
    /\ ~page_blob.exists
    /\ \E size \in Sizes : page_create_blob(size)
    /\ UNCHANGED <<ccvars, lsvars, apvars, pg_calls, pg_done>>

PageSetPutPage ==
    /\ page_blob.exists
    /\ \E c \in pg_calls \ pg_done :
          /\ put_page(c.page_start, c.page_end, c.data)
          /\ pg_done' = pg_done \cup {c}
    /\ UNCHANGED <<ccvars, lsvars, apvars, pg_calls>>

NextPageSet ==
    \/ PageSetCreateBlob
    \/ PageSetPutPage

SpecPageSet == InitSpecPageSet /\ [][NextPageSet]_vars

\* The append engine on one destination blob, its appends made one at a time.
AppendCreateBlob ==
    /\ append_create_blob
    /\ UNCHANGED <<ccvars, lsvars, pgvars>>

AppendData == Data \cup {<<"x", "y">>}

AppendBlock ==
    /\ \E data \in AppendData :
          /\ data # None => Len(append_blob.content) + Len(data) <= MaxAppend
          /\ append_block(data)
    /\ UNCHANGED <<ccvars, lsvars, pgvars>>

NextAppend ==
    \/ AppendCreateBlob
    \/ AppendBlock

SpecAppend == InitSpecBlock /\ [][NextAppend]_vars

\* create_container calls of concurrent workers next to calls of the transfer
\* and listing engines, which are not handed the registry.
RegistryListBlobs ==
    /\ list_blobs(<<>>, "File", FALSE)
    /\ UNCHANGED <<ccvars, blkvars, pgvars, apvars>>

NextRegistry ==
    \/ CreateContainerEnter
    \/ CreateContainerRequest
    \/ CreateContainerFinally
    \/ AppendCreateBlob
    \/ RegistryListBlobs
    \/ ListFirst

SpecRegistry == InitSpecContainer /\ [][NextRegistry]_vars

(***************************************************************************)
(* Properties.                                                             *)
(***************************************************************************)

\* Every worker has called create_container exactly once, for entity e, and
\* every call has ended.
OneRound(e) ==
    /\ cc_ncalls = MaxWorkers
    /\ \A w \in Workers : cc_pc[w] \in {"done", "raised"} /\ cc_ase[w] = e

\* C1: when every worker calls create_container once for the same key, with
\* can_create_containers true and an empty registry at the start, and the
\* store fails no call, exactly one create call is issued, every call
\* returns normally and the registry holds exactly that key.
C1_OneCreateCall ==
    \A e \in ContainerEntities :
        (/\ e.can_create_containers
         /\ OneRound(e)
         /\ \A w \in Workers : cc_exc[w] # "HttpResponseError")
        => /\ create_calls[RemoteName(e)] = 1
           /\ \A w \in Workers : cc_pc[w] = "done"
           /\ containers_created = {container_key(e)}

\* The ids of blocks 0..n, ascending.
ExpectedIds(n) == [i \in 1..(n + 1) |-> format_block_id(i - 1)]

BlockIds(blocks) == [i \in 1..Len(blocks) |-> blocks[i].id]

\* A step of the named engine call.
StepOf(op) == vars' # vars /\ last'.op = op

\* C2: round trip of the staged-block protocol.  A put_block_list(n) issued
\* when put_block has staged chunks 0..n succeeds and commits exactly the
\* blocks format_block_id(0..n) in ascending order, and a
\* get_committed_block_list issued after a successful put_block_list(n)
\* returns exactly those n+1 ids.
C2_RoundTrip ==
    [][/\ \A n \in ChunkNums :
            (/\ \A c \in 0..n : format_block_id(c) \in DOMAIN staged
             /\ StepOf("put_block_list")
             /\ last'.args.last_block_num = n)
            => /\ last'.exc = "none"
               /\ BlockIds(committed'.blocks) = ExpectedIds(n)
       /\ (/\ last.op = "put_block_list"
           /\ last.exc = "none"
           /\ StepOf("get_committed_block_list"))
          => /\ last'.exc = "none"
             /\ Len(last'.ret) = last.args.last_block_num + 1
             /\ last'.ret = ExpectedIds(last.args.last_block_num)]_vars

\* get_committed_block_list has returned the whole staged-and-committed
\* sequence of MaxChunk + 1 blocks.
C2_Witness ==
    /\ last.op = "get_committed_block_list"
    /\ last.exc = "none"
    /\ Len(last.ret) = MaxChunk + 1
    /\ last.ret = ExpectedIds(MaxChunk)

\* C3: put_block with absent data issues a stage-block call with an empty
\* payload under format_block_id(chunk_num), so the chunk is staged.
C3_AbsentDataStaged ==
    (last.op = "put_block" /\ last.args.data = None)
    => /\ Len(last.calls) = 1
       /\ last.calls[1].call = "stage_block"
       /\ last.calls[1].block_id = format_block_id(last.args.offsets.chunk_num)
       /\ last.calls[1].data = <<>>
       /\ format_block_id(last.args.offsets.chunk_num) \in DOMAIN staged

\* C4: create_blob with absent data issues the upload call with an empty
\* payload, the checksum and the metadata, and the blob is committed.
C4_AbsentDataUploaded ==
    (last.op = "create_blob" /\ last.args.data = None)
    => /\ Len(last.calls) = 1
       /\ last.calls[1].call = "upload_blob"
       /\ last.calls[1].data = <<>>
       /\ last.calls[1].content_md5 = decode_md5(last.args.md5)
       /\ last.calls[1].metadata = last.args.metadata
       /\ committed.exists

\* C5: the byte length put_block_from_url asks the store to copy equals the
\* length get_blob_range requests for the same Offsets, and the staged block
\* holds the bytes get_blob_range returns for them.
C5_SameRangeLength ==
    (last.op = "put_block_from_url" /\ last.exc = "none")
    => /\ Len(last.calls) = 1
       /\ last.calls[1].source_length = blob_range_length(last.args.offsets)
       /\ staged[last.calls[1].block_id]
            = Bytes(SrcContent, last.args.offsets.range_start,
                    blob_range_length(last.args.offsets))

\* C6: for every kind of source entity put_block_from_url issues exactly one
\* stage-block-from-URL call under format_block_id(chunk_num); the source URL
\* is the path verbatim for an arbitrary URL and otherwise the primary
\* endpoint, the object path and a token.
C6_OneCopyCall ==
    last.op = "put_block_from_url"
    => /\ last.exc = "none"
       /\ Len(last.calls) = 1
       /\ last.calls[1].call = "stage_block_from_url"
       /\ last.calls[1].block_id = format_block_id(last.args.offsets.chunk_num)
       /\ IF last.args.src_ase.is_arbitrary_url
          THEN last.calls[1].source_url = <<src_path(last.args.src_ase)>>
          ELSE /\ Len(last.calls[1].source_url) = 6
               /\ SubSeq(last.calls[1].source_url, 1, 5)
                    = <<"https://", "primary_endpoint", "/",
                        src_path(last.args.src_ase), "?">>

IsDigit(ch) == \E d \in 1..10 : DigitChars[d] = ch

RECURSIVE DecimalValue(_)
DecimalValue(id) ==
    IF id = <<>> THEN 0
    ELSE 10 * DecimalValue(SubSeq(id, 1, Len(id) - 1))
         + (CHOOSE d \in 0..9 : DigitChars[d + 1] = id[Len(id)])

\* Exactly 8 decimal digits.
WellFormedId(id) == Len(id) = 8 /\ \A i \in 1..Len(id) : IsDigit(id[i])

InIdRange(c) == 0 <= c /\ c <= 99999999

\* Chunk numbers of the 8-digit range: the first ones, powers of ten and
\* their neighbours, and the last ones.
IdSamples ==
    (0..20) \cup {99, 100, 101, 12345678, 9999999, 10000000, 99999998, 99999999}

\* The block ids a call has sent to the store.
SentIds ==
    UNION {IF last.calls[i].call \in {"stage_block", "stage_block_from_url"}
           THEN {last.calls[i].block_id}
           ELSE IF last.calls[i].call = "commit_block_list"
                THEN {last.calls[i].block_list[j] :
                          j \in 1..Len(last.calls[i].block_list)}
                ELSE {} : i \in 1..Len(last.calls)}

\* C7: for a chunk_num in [0, 99999999] the block id is 8 decimal digits,
\* zero-padded, whose value is chunk_num (as staged by put_block and
\* put_block_from_url and as listed by put_block_list), and distinct chunk
\* numbers of the range have distinct ids.
C7_BlockIdFormat ==
    /\ (/\ last.op \in {"put_block", "put_block_from_url"}
        /\ last.calls # <<>>
        /\ InIdRange(last.args.offsets.chunk_num))
       => /\ WellFormedId(last.calls[1].block_id)
          /\ DecimalValue(last.calls[1].block_id) = last.args.offsets.chunk_num
    /\ last.op = "put_block_list"
       => \A i \in 1..Len(last.calls[1].block_list) :
              /\ WellFormedId(last.calls[1].block_list[i])
              /\ DecimalValue(last.calls[1].block_list[i]) = i - 1
    /\ \A c \in IdSamples :
          /\ WellFormedId(format_block_id(c))
          /\ DecimalValue(format_block_id(c)) = c
          /\ \A d \in IdSamples : c # d => format_block_id(c) # format_block_id(d)

\* put_block has staged the last chunk number of the range under 99999999.
C7_Witness ==
    /\ last.op = "put_block"
    /\ last.args.offsets.chunk_num = 99999999
    /\ Len(last.calls) = 1
    /\ last.calls[1].block_id = <<"9", "9", "9", "9", "9", "9", "9", "9">>
    /\ last.calls[1].block_id \in DOMAIN staged

\* C8: for a chunk_num outside [0, 99999999] put_block (given data),
\* put_block_from_url and put_block_list fail, and no call sends the store a
\* block id that is not exactly 8 decimal digits.
C8_OutOfRangeRejected ==
    /\ (/\ last.op = "put_block"
        /\ last.args.data # None
        /\ ~InIdRange(last.args.offsets.chunk_num))
       => last.exc # "none" /\ last.calls = <<>>
    /\ (/\ last.op = "put_block_from_url"
        /\ ~InIdRange(last.args.offsets.chunk_num))
       => last.exc # "none" /\ last.calls = <<>>
    /\ (/\ last.op = "put_block_list"
        /\ ~InIdRange(last.args.last_block_num))
       => last.exc # "none" /\ last.calls = <<>>
    /\ \A id \in SentIds : WellFormedId(id)

\* The requested mode admits the remote type.
ModeMatches(mode, blob_type) ==
    \/ mode = "Auto"
    \/ mode = "Block" /\ blob_type = "BlockBlob"
    \/ mode = "Append" /\ blob_type = "AppendBlob"
    \/ mode = "Page" /\ blob_type = "PageBlob"

\* The part of a name after the prefix has a path separator.
SeparatorAfterPrefix(name, prefix) ==
    \E i \in (Len(prefix) + 1)..Len(name) : name[i] = "/"

Yielded == {ls_yielded[i] : i \in 1..Len(ls_yielded)}

\* A listing of a plain prefix has run to its end.
ListingDone ==
    /\ ls_pc = "done"
    /\ ~blob_is_snapshot(ls_args.prefix)

\* C9: a non-recursive listing yields an enumerated object of the requested
\* mode exactly when its name has no path separator after the prefix; a
\* recursive listing yields every such object.
C9_SeparatorAfterPrefix ==
    ListingDone
    => \A j \in 1..Len(Enumeration) :
          ModeMatches(ls_args.mode, Enumeration[j].blob_type)
          => (Enumeration[j] \in Yielded
              <=> (ls_args.recursive
                   \/ ~SeparatorAfterPrefix(Enumeration[j].name, ls_args.prefix)))

RECURSIVE OfMode(_, _)
\* The objects of a sequence the mode admits, in order.
OfMode(blobs, mode) ==
    IF blobs = <<>> THEN <<>>
    ELSE IF ModeMatches(mode, Head(blobs).blob_type)
         THEN <<Head(blobs)>> \o OfMode(Tail(blobs), mode)
         ELSE OfMode(Tail(blobs), mode)

\* C10: a recursive listing of a plain prefix yields exactly the enumerated
\* objects whose type equals the mode (all of them for Auto), in enumeration
\* order and none twice; while it runs it has yielded a prefix of them.
C10_ModeFilter ==
    (/\ ls_pc \in {"yielded", "done"}
     /\ ~blob_is_snapshot(ls_args.prefix)
     /\ ls_args.recursive)
    => LET want == OfMode(Enumeration, ls_args.mode)
       IN  /\ Len(ls_yielded) <= Len(want)
           /\ ls_yielded = SubSeq(want, 1, Len(ls_yielded))
           /\ ls_pc = "done" => ls_yielded = want
           /\ \A i, j \in 1..Len(ls_yielded) : i # j => ls_yielded[i] # ls_yielded[j]

\* A Block-mode listing over an append blob and a block blob has ended and
\* has yielded the block blob alone.
C10_Witness ==
    /\ ListingDone
    /\ ls_args.recursive
    /\ ls_args.mode = "Block"
    /\ \E i, j \in 1..Len(Enumeration) :
          /\ Enumeration[i].blob_type = "AppendBlob"
          /\ Enumeration[j].blob_type = "BlockBlob"
          /\ ls_yielded = <<Enumeration[j]>>

\* The blobs of the container that carry the name.
Held(name) == {ls_blobs[i] : i \in {j \in 1..Len(ls_blobs) : ls_blobs[j].name = name}}

\* The text names the value.
Names(msg, value) == \E i \in 1..Len(msg) : msg[i] = value

SingleModes == {"Block", "Append", "Page"}

\* The latest call is a get_blob_properties for one of the three blob modes
\* that the store has answered.
PropertiesAnswered ==
    /\ last.op = "get_blob_properties"
    /\ last.args.mode \in SingleModes
    /\ last.exc # "HttpResponseError"

ReturnedAbsent == last.exc = "none" /\ last.ret = None

ReturnedProperties(blob) ==
    /\ last.exc = "none"
    /\ last.ret = Properties(blob)
    /\ ModeMatches(last.args.mode, blob.blob_type)

FailedMismatch(blob_type) ==
    /\ last.exc = "RuntimeError"
    /\ ~ModeMatches(last.args.mode, blob_type)
    /\ Names(last.msg, blob_type)
    /\ Names(last.msg, last.args.mode)

\* C11: get_blob_properties for a mode among Block, Append and Page, once the
\* store has answered, ends in one of three ways: it returns None; it returns
\* the properties of a blob whose type equals the mode; it raises a
\* RuntimeError whose message names the blob's type, which differs from the
\* mode, and the mode.  For a plain name the way is decided by the container:
\* None when the name is not held, the properties when the held blob's type
\* equals the mode, the RuntimeError when it has another type.
C11_ThreeOutcomes ==
    PropertiesAnswered =>
        /\ \/ ReturnedAbsent
           \/ \E bt \in BlobTypes :
                 ReturnedProperties([name |-> last.args.prefix, blob_type |-> bt])
           \/ \E bt \in BlobTypes : FailedMismatch(bt)
        /\ ~blob_is_snapshot(last.args.prefix) =>
              /\ Held(last.args.prefix) = {} => ReturnedAbsent
              /\ \A b \in Held(last.args.prefix) :
                    IF ModeMatches(last.args.mode, b.blob_type)
                    THEN ReturnedProperties(b)
                    ELSE FailedMismatch(b.blob_type)

\* A Block-mode lookup of a held page blob has raised the mismatch error.
C11_Witness ==
    /\ PropertiesAnswered
    /\ last.args.mode = "Block"
    /\ \E b \in Held(last.args.prefix) : b.blob_type = "PageBlob"
    /\ last.exc = "RuntimeError"
    /\ last.msg = mismatch_msg("PageBlob", "Block")

\* C12: with mode File, get_blob_properties raises its RuntimeError with no
\* remote call issued, and a list_blobs generator raises on the first request
\* for an item with no remote call issued and nothing yielded, whatever the
\* prefix (a snapshot reference included) and the container.
C12_FileModeFailsFirst ==
    /\ (last.op = "get_blob_properties" /\ last.args.mode = "File")
          => /\ last.exc = "RuntimeError"
             /\ last.msg = incompatible_mode_msg("File")
             /\ last.calls = <<>>
    /\ (ls_args.mode = "File" /\ ls_pc # "start")
          => /\ ls_pc = "raised"
             /\ ls_calls = <<>>
             /\ ls_yielded = <<>>

\* Both calls have failed on File mode, the listing for a snapshot reference
\* in a container that holds blobs.
C12_Witness ==
    /\ last.op = "get_blob_properties"
    /\ last.args.mode = "File"
    /\ last.exc = "RuntimeError"
    /\ ls_args.mode = "File"
    /\ blob_is_snapshot(ls_args.prefix)
    /\ ls_pc = "raised"
    /\ ls_blobs # <<>>

\* C13: check_if_single_blob of a snapshot reference returns True with no
\* fetch issued.  Of any other name it issues exactly one property fetch, for
\* that name, and returns True when the container holds the name, False when
\* the fetch raised ResourceNotFoundError; any other fetch error is raised to
\* the caller and nothing is returned.
C13_SingleBlob ==
    last.op = "check_if_single_blob" =>
        IF blob_is_snapshot(last.args.prefix)
        THEN last.calls = <<>> /\ last.ret = PyTrue /\ last.exc = "none"
        ELSE /\ last.calls = <<fetch_call(last.args.prefix)>>
             /\ \/ /\ last.exc = "none"
                   /\ last.ret = (IF Held(last.args.prefix) # {} THEN PyTrue ELSE PyFalse)
                \/ /\ last.exc = "HttpResponseError"
                   /\ last.ret = None

\* The check of a name the container does not hold has returned False after
\* one fetch.
C13_Witness ==
    /\ last.op = "check_if_single_blob"
    /\ ls_blobs # <<>>
    /\ Held(last.args.prefix) = {}
    /\ ~blob_is_snapshot(last.args.prefix)
    /\ Len(last.calls) = 1
    /\ last.ret = PyFalse

\* The keys a create call has been issued for.
AttemptedKeys ==
    {container_key(e) : e \in {x \in ContainerEntities : create_calls[RemoteName(x)] > 0}}

\* C14: when create_container is called in sequence, each key gets at most
\* one create call over the whole series, whatever the outcome of that call
\* (created, ResourceExistsError swallowed, or another error raised to the
\* caller): a call that follows a completed call for its key issues none.
\* Between calls the registry holds exactly the keys a create call was issued
\* for, so its size is their number.
C14_NoReissue ==
    /\ \A r \in RemoteNames : create_calls[r] <= 1
    /\ NoCallInFlight =>
          /\ containers_created = AttemptedKeys
          /\ Cardinality(containers_created) = Cardinality(AttemptedKeys)

\* A call whose create call failed has raised to its caller, and a later call
\* for the same key has returned with no second create call issued.
C14_Witness ==
    \E w1, w2 \in Workers :
        /\ w1 # w2
        /\ cc_pc[w1] = "raised"
        /\ cc_pc[w2] = "done"
        /\ cc_ase[w1] = cc_ase[w2]
        /\ cc_ase[w1].can_create_containers
        /\ create_calls[RemoteName(cc_ase[w1])] = 1

\* C15: a key enters the registry only at the end of a call whose create call
\* created the container or raised ResourceExistsError; a call whose create
\* call failed otherwise adds nothing.
C15_AddedOnlyWhenConfirmed ==
    [][\A e \in ContainerEntities :
          (/\ container_key(e) \notin containers_created
           /\ container_key(e) \in containers_created')
          => \E w \in Workers :
                /\ cc_pc[w] = "finally"
                /\ cc_pc'[w] = "done"
                /\ container_key(cc_ase[w]) = container_key(e)
                /\ cc_exc[w] \in {"none", "ResourceExistsError"}]_vars

\* The worker's call has left its try statement.
Ended(w) == cc_pc[w] \in {"done", "raised"}

\* C16: a call whose create call raised ResourceExistsError returns normally
\* with its key in the registry; a call whose create call raised any other
\* error ends with that error raised to its caller.
C16_OnlyExistsSwallowed ==
    \A w \in Workers :
        /\ (Ended(w) /\ cc_exc[w] = "ResourceExistsError")
              => /\ cc_pc[w] = "done"
                 /\ container_key(cc_ase[w]) \in containers_created
        /\ (Ended(w) /\ cc_exc[w] = "HttpResponseError")
              => cc_pc[w] = "raised"

\* One call has returned after ResourceExistsError and another has raised
\* the error of its create call.
C16_Witness ==
    \E w1, w2 \in Workers :
        /\ cc_pc[w1] = "done"
        /\ cc_exc[w1] = "ResourceExistsError"
        /\ container_key(cc_ase[w1]) \in containers_created
        /\ cc_pc[w2] = "raised"
        /\ cc_exc[w2] = "HttpResponseError"

\* The step is an entry into create_container that changes no other worker.
EnterStep(w) ==
    /\ cc_ncalls' = cc_ncalls + 1
    /\ \A v \in Workers \ {w} :
          /\ cc_pc'[v] = cc_pc[v]
          /\ cc_ase'[v] = cc_ase[v]
          /\ cc_read'[v] = cc_read[v]

\* C17: a create_container call for an entity whose can_create_containers is
\* false is over at its entry: it returns normally, it has not evaluated the
\* registry lookup (so the registry may be None), and the step leaves the
\* registry, the store and the count of create calls as they were, whatever
\* the registry holds.
C17_NoCreatePermission ==
    /\ [](\A w \in Workers :
             (cc_pc[w] # "idle" /\ ~cc_ase[w].can_create_containers)
             => /\ cc_pc[w] = "done"
                /\ cc_exc[w] = "none"
                /\ ~cc_read[w])
    /\ [][\A w \in Workers :
             (EnterStep(w) /\ cc_pc'[w] # "idle" /\ ~cc_ase'[w].can_create_containers)
             => UNCHANGED <<containers_created, remote_containers, create_calls>>]_vars

\* A call without the permission has returned for a container that does not
\* exist and whose key the registry, holding another key, lacks; no create
\* call was ever issued for it.
C17_Witness ==
    \E w \in Workers :
        /\ cc_pc[w] = "done"
        /\ ~cc_ase[w].can_create_containers
        /\ ~cc_read[w]
        /\ containers_created # {}
        /\ container_key(cc_ase[w]) \notin containers_created
        /\ RemoteName(cc_ase[w]) \notin remote_containers
        /\ create_calls[RemoteName(cc_ase[w])] = 0

\* The smallest multiple of the page size that is not below the size.
IsNextPageMultiple(sent, size) ==
    /\ sent % PageBoundary = 0
    /\ sent >= size
    /\ sent - size < PageBoundary

\* C18: page.create_blob and resize_blob send the store the smallest multiple
\* of 512 not below the logical size (1024 for 1000; a multiple of 512, 0
\* included, as it is), and the size of the page blob at the store is a
\* multiple of 512 in every state.
C18_SizeAligned ==
    /\ last.op \in {"page.create_blob", "resize_blob"}
          => /\ Len(last.calls) = 1
             /\ IsNextPageMultiple(last.calls[1].size, last.args.size)
             /\ last.args.size = 1000 => last.calls[1].size = 1024
             /\ last.args.size % 512 = 0 => last.calls[1].size = last.args.size
    /\ page_blob.size % 512 = 0

\* A page blob that held written pages has been resized for 1000 bytes and
\* holds 1024.
C18_Witness ==
    /\ last.op = "resize_blob"
    /\ last.args.size = 1000
    /\ last.exc = "none"
    /\ page_blob.size = 1024
    /\ \E i \in 1..Len(page_blob.content) : page_blob.content[i] # "zero"

\* The latest call is a put_page.
PutPageDone == last.op = "put_page" /\ Len(last.calls) = 1

ChecksumFields == {"content_md5", "metadata", "content_settings"}

\* C20: put_block_list(ase, n, md5, metadata) issues exactly one remote call,
\* a commit whose block list is format_block_id(0), ..., format_block_id(n):
\* n + 1 entries, ascending, none twice; the call carries the decoded
\* checksum and the metadata it was given.  A put_block or put_block_from_url
\* call carries neither: its remote call has no checksum or metadata field,
\* and the source checksum of a copy is None.
C20_OneCommit ==
    /\ last.op = "put_block_list" =>
          /\ Len(last.calls) = 1
          /\ last.calls[1].call = "commit_block_list"
          /\ Len(last.calls[1].block_list) = last.args.last_block_num + 1
          /\ \A i \in 1..Len(last.calls[1].block_list) :
                /\ last.calls[1].block_list[i] = format_block_id(i - 1)
                /\ DecimalValue(last.calls[1].block_list[i]) = i - 1
          /\ \A i, j \in 1..Len(last.calls[1].block_list) :
                i # j => last.calls[1].block_list[i] # last.calls[1].block_list[j]
          /\ last.calls[1].content_md5 = decode_md5(last.args.md5)
          /\ last.calls[1].metadata = last.args.metadata
    /\ last.op \in {"put_block", "put_block_from_url"} =>
          \A i \in 1..Len(last.calls) :
              /\ last.calls[i].call \in {"stage_block", "stage_block_from_url"}
              /\ DOMAIN last.calls[i] \cap ChecksumFields = {}
              /\ last.calls[i].call = "stage_block_from_url"
                    => last.calls[i].source_content_md5 = None

\* A commit of blocks 0..MaxChunk with a checksum and metadata has succeeded.
C20_Witness ==
    /\ last.op = "put_block_list"
    /\ last.exc = "none"
    /\ last.args.last_block_num = MaxChunk
    /\ last.args.md5 # None
    /\ last.args.metadata # None
    /\ Len(last.calls) = 1
    /\ last.calls[1].content_md5 # None
    /\ committed.exists

\* The blob a snapshot reference refers to.
BaseName(prefix) == parse_blob_snapshot_parameter(prefix)[1]

\* C21: a listing with a snapshot reference as prefix and a mode other than
\* File, of a container that holds the referenced blob (the store keeps the
\* snapshot of every blob it holds) and with no transport failure, issues one
\* property fetch and no listing call, yields one entry, the properties of
\* the snapshot of that blob, and ends; for every such mode and both values
\* of recursive.
C21_SnapshotListing ==
    (/\ ls_pc \notin {"idle", "start"}
     /\ blob_is_snapshot(ls_args.prefix)
     /\ ls_args.mode # "File"
     /\ Held(BaseName(ls_args.prefix)) # {}
     /\ ls_exc.exc # "HttpResponseError")
    => /\ Len(ls_calls) = 1
       /\ ls_calls[1].call = "get_blob_properties"
       /\ ls_pc \in {"snapshot_yielded", "done"}
       /\ Len(ls_yielded) = 1
       /\ \E b \in Held(BaseName(ls_args.prefix)) :
             ls_yielded[1].blob_type = b.blob_type

\* The characters of the texts and names the messages are made of.
Spelling ==
    "cannot list Azure Blobs with incompatible mode: " :>
       <<"c", "a", "n", "n", "o", "t", " ", "l", "i", "s", "t", " ",
       "A", "z", "u", "r", "e", " ", "B", "l", "o", "b", "s", " ",
       "w", "i", "t", "h", " ", "i", "n", "c", "o", "m", "p", "a",
       "t", "i", "b", "l", "e", " ", "m", "o", "d", "e", ":", " ">>
    @@ "existing blob type " :>
       <<"e", "x", "i", "s", "t", "i", "n", "g", " ", "b", "l", "o",
       "b", " ", "t", "y", "p", "e", " ">>
    @@ " mismatch with mode " :>
       <<" ", "m", "i", "s", "m", "a", "t", "c", "h", " ", "w", "i",
       "t", "h", " ", "m", "o", "d", "e", " ">>
    @@ "cannot list Azure Files from blob client" :>
       <<"c", "a", "n", "n", "o", "t", " ", "l", "i", "s", "t", " ",
       "A", "z", "u", "r", "e", " ", "F", "i", "l", "e", "s", " ",
       "f", "r", "o", "m", " ", "b", "l", "o", "b", " ", "c", "l",
       "i", "e", "n", "t">>
    @@ "cannot list from blob client" :>
       <<"c", "a", "n", "n", "o", "t", " ", "l", "i", "s", "t", " ",
       "f", "r", "o", "m", " ", "b", "l", "o", "b", " ", "c", "l",
       "i", "e", "n", "t">>
    @@ "Block" :>
       <<"B", "l", "o", "c", "k">>
    @@ "Append" :>
       <<"A", "p", "p", "e", "n", "d">>
    @@ "Page" :>
       <<"P", "a", "g", "e">>
    @@ "File" :>
       <<"F", "i", "l", "e">>
    @@ "Auto" :>
       <<"A", "u", "t", "o">>
    @@ "BlockBlob" :>
       <<"B", "l", "o", "c", "k", "B", "l", "o", "b">>
    @@ "AppendBlob" :>
       <<"A", "p", "p", "e", "n", "d", "B", "l", "o", "b">>
    @@ "PageBlob" :>
       <<"P", "a", "g", "e", "B", "l", "o", "b">>

RECURSIVE Text(_)
\* A message as the characters it is rendered to.  (A mode is rendered with
\* its class name before the member name, which adds no name to the text.)
Text(msg) == IF msg = <<>> THEN <<>> ELSE Spelling[Head(msg)] \o Text(Tail(msg))

\* The text has the word in it.
Contains(text, word) ==
    \E i \in 1..(Len(text) - Len(word) + 1) : SubSeq(text, i, i + Len(word) - 1) = word

\* C22: the text of every RuntimeError that get_blob_properties raises has
\* the name of the requested mode in it, and, when the error is the type
\* mismatch, the name of the held blob's type; the text of the RuntimeError
\* that a File-mode list_blobs raises has the name File in it.
C22_MessagesNameMode ==
    /\ (last.op = "get_blob_properties" /\ last.exc = "RuntimeError")
          => /\ Contains(Text(last.msg), Spelling[last.args.mode])
             /\ last.args.mode # "File"
                   => \E b \in Held(last.args.prefix) :
                          /\ ~ModeMatches(last.args.mode, b.blob_type)
                          /\ Contains(Text(last.msg), Spelling[b.blob_type])
    /\ ls_exc.exc = "RuntimeError"
          => Contains(Text(ls_exc.msg), Spelling[ls_args.mode])

\* A Page-mode lookup of an append blob has raised the mismatch error and a
\* File-mode listing has raised its error.
C22_Witness ==
    /\ last.op = "get_blob_properties"
    /\ last.exc = "RuntimeError"
    /\ last.args.mode = "Page"
    /\ \E b \in Held(last.args.prefix) : b.blob_type = "AppendBlob"
    /\ ls_pc = "raised"
    /\ ls_exc.exc = "RuntimeError"
    /\ ls_args.mode = "File"

\* The bytes of chunks 0..n of the source, in ascending order.
ChunksInOrder(n) == Concat([i \in 1..(n + 1) |-> ChunkData(i - 1)])

\* C23: whatever the order in which the staging calls for the chunks of a
\* transfer complete, uploads and server-side copies alike, a
\* put_block_list(n) issued when every chunk 0..n has been staged succeeds
\* and leaves the blob with the chunks' bytes in ascending order of chunk
\* number.
C23_OrderIndependent ==
    [][(/\ StepOf("put_block_list")
        /\ \A c \in 0..last'.args.last_block_num :
              format_block_id(c) \in DOMAIN staged)
       => /\ last'.exc = "none"
          /\ committed'.content = ChunksInOrder(last'.args.last_block_num)]_vars

\* C24: while the destination blob has never been committed,
\* get_committed_block_list reports no committed block, whatever put_block
\* and put_block_from_url have staged: it returns the empty list, or raises
\* ResourceNotFoundError when nothing is staged either.  A staging call
\* leaves the committed blocks and content as they are, and no call of the
\* block engine makes a committed blob uncommitted or absent.
C24_StagedInvisible ==
    /\ []((last.op = "get_committed_block_list" /\ ~committed.exists)
            => \/ last.exc = "none" /\ last.ret = <<>>
               \/ last.exc = "ResourceNotFoundError" /\ DOMAIN staged = {})
    /\ [][/\ committed.exists => committed'.exists
          /\ last'.op \in {"put_block", "put_block_from_url"} => committed' = committed]_vars

\* Every chunk is staged, nothing was ever committed, and
\* get_committed_block_list has returned the empty list.
C24_Witness ==
    /\ last.op = "get_committed_block_list"
    /\ last.exc = "none"
    /\ last.ret = <<>>
    /\ ~committed.exists
    /\ \A c \in ChunkNums : format_block_id(c) \in DOMAIN staged


\* C25: on an append blob made by create_blob, every successful append_block
\* extends the content by exactly its payload at the end, at once and with no
\* further call, so a series of appends d1..dk leaves d1 d2 ... dk; a failed
\* append leaves the content as it was; and an append_block with absent data
\* makes one append call with an empty payload and leaves the content unchanged.
AppendSent(data) == IF data = None THEN <<>> ELSE data

C25_AppendInOrder ==
    [][/\ last'.op = "append.create_blob"
          => append_blob' = [exists |-> TRUE, content |-> <<>>]
       /\ last'.op = "append_block"
          => /\ Len(last'.calls) = 1
             /\ last'.calls[1].call = "append_block"
             /\ last'.calls[1].data = AppendSent(last'.args.data)
             /\ append_blob'.exists = append_blob.exists
             /\ append_blob'.content =
                  IF last'.exc = "none"
                  THEN append_blob.content \o AppendSent(last'.args.data)
                  ELSE append_blob.content
             /\ last'.args.data = None => append_blob' = append_blob]_vars

C25_Witness ==
    /\ last.op = "append_block"
    /\ last.args.data = None
    /\ last.exc = "none"
    /\ last.calls = <<[call |-> "append_block", data |-> <<>>]>>
    /\ append_blob = [exists |-> TRUE, content |-> <<"x", "y", "y", "x">>]


\* C26: on one sized page blob, put_page calls with pairwise disjoint byte
\* ranges leave the same content in whatever order they reach the store: the
\* content is a function of the set of calls that have returned (each page
\* holds the data of the accepted call covering it, or zeros), and no put_page
\* call changes the size of the blob.
CallAccepted(c) ==
    page_write_accepted(c.data, c.page_start, c.page_end - c.page_start)

CallCovers(c, i) ==
    /\ (i - 1) * PageBoundary >= c.page_start
    /\ i * PageBoundary <= c.page_end

ContentOf(calls) ==
    [i \in 1..Pages(page_blob.size) |->
       IF \E c \in calls : CallAccepted(c) /\ CallCovers(c, i)
       THEN (CHOOSE c \in calls : CallAccepted(c) /\ CallCovers(c, i)).data[3]
       ELSE "zero"]

C26_PageOrderIndependent ==
    /\ [](page_blob.exists => page_blob.content = ContentOf(pg_done))
    /\ [][last'.op = "put_page" => /\ page_blob'.size = page_blob.size
                                   /\ page_blob'.exists = page_blob.exists
                                   /\ Len(page_blob'.content) = Len(page_blob.content)]_vars

C26_Witness ==
    /\ last.op = "put_page"
    /\ Cardinality(pg_calls) = MaxWorkers
    /\ pg_done = pg_calls
    /\ \A c \in pg_calls : CallAccepted(c)
    /\ \E c \in pg_calls, d \in pg_calls : c.data[3] # d.data[3]
    /\ \A i \in 1..Pages(page_blob.size) : page_blob.content[i] # "zero"


\* C27: the registry only grows. No step removes a key from it, so a key once
\* present is present in every later state, whatever the order of the
\* create_container calls of the workers; the only step that changes it is
\* the finally clause of a create_container call; and a step of the transfer
\* or listing engines leaves the registry and every create_container call as
\* they were.
RegistryChanged == containers_created' # containers_created

FinallyStep(w) == cc_pc[w] = "finally" /\ cc_pc'[w] \in {"done", "raised"}

EngineStep == <<blkvars, lsvars, pgvars, apvars>>' # <<blkvars, lsvars, pgvars, apvars>>

C27_RegistryOnlyGrows ==
    [][/\ containers_created \subseteq containers_created'
       /\ RegistryChanged => \E w \in Workers : FinallyStep(w)
       /\ EngineStep => UNCHANGED ccvars]_vars

C27_Witness ==
    /\ Cardinality(containers_created) >= 2
    /\ \E w \in Workers : cc_pc[w] = "raised"
    /\ append_blob.exists
    /\ ls_pc = "raised"


\* C28: get_blob_properties with mode Auto never raises the mismatch
\* RuntimeError (nor any RuntimeError): once the store has answered, it has
\* returned the properties of the blob held under the name, whatever its type,
\* or None when the container holds no blob of that name.
AutoAnswered ==
    /\ last.op = "get_blob_properties"
    /\ last.args.mode = "Auto"
    /\ last.exc # "HttpResponseError"

C28_AutoNeverMismatches ==
    (last.op = "get_blob_properties" /\ last.args.mode = "Auto")
    => /\ last.exc # "RuntimeError"
       /\ AutoAnswered =>
             /\ last.exc = "none"
             /\ Len(last.calls) = 1
             /\ Held(last.args.prefix) = {} => last.ret = None
             /\ \A b \in Held(last.args.prefix) : last.ret = Properties(b)

\* An Auto lookup of a held page blob has returned its properties, in a
\* container that also holds a blob of another type.
C28_Witness ==
    /\ AutoAnswered
    /\ \E b \in Held(last.args.prefix) :
          /\ b.blob_type = "PageBlob"
          /\ last.ret = Properties(b)
    /\ \E i \in 1..Len(ls_blobs) : ls_blobs[i].blob_type # "PageBlob"

====
